---- MODULE Spec2Model ----
(***************************************************************************)
(* Model of the World aggregator of the bounce toy (src/src/lib.rs), of    *)
(* its force pass compute_derivs_ext (src/src/physics.rs) and of the event *)
(* handling of the frame loop (src/src/main.rs).                           *)
(*                                                                         *)
(* Numbers.  The program computes in f32.  The model computes in fixed     *)
(* point: the integer n stands for the real n / ONE.  A quotient truncates *)
(* toward zero, so that, as in IEEE arithmetic, negating an operand of a   *)
(* product or quotient negates the result exactly.                         *)
(*                                                                         *)
(* Geometry.  The overlap of two shapes (crate geom2: intersect,           *)
(* intersect_to, moment, edges) is not code of this repository.  Its       *)
(* result is an input of compute_derivs_ext, drawn from Geos: per query    *)
(* either no overlap, or an overlap with an area, a centroid and a         *)
(* weighted edge sum.                                                      *)
(*                                                                         *)
(* Indices are those of the program: items[i] of the program is            *)
(* items[i + 1] here, and drag.i is the program's 0-based index.           *)
(***************************************************************************)
EXTENDS Integers, Sequences, FiniteSets, TLC

VARIABLES
    size,      \* World::size, half of the world sides
    items,     \* World::items, in storage order
    drag,      \* World::drag: None or [i, target, rpos]
    panicked,  \* an index was out of bounds (Vec::remove, self.items[i])
    calls,     \* what the operation just performed did, in order: the phases
               \* of compute_derivs_ext and every Actor::apply call
    op,        \* the operation just performed and its arguments
    ncalls,    \* number of compute_derivs_ext calls made so far
    grabbed,   \* <<the item the last drag_acquire hit>> while that drag
               \* lasts, <<>> otherwise
    mouse_pos, \* main: the cursor position in world coordinates
    mouse_down \* main: the left button is tracked as pressed

vars == <<size, items, drag, panicked, calls, op, ncalls, grabbed,
          mouse_pos, mouse_down>>

-----------------------------------------------------------------------------
(* Bounds of the model. *)

MaxItems == 3
MaxCalls == 1
MaxContacts == 2
MaxArea == 1

-----------------------------------------------------------------------------
(* Fixed-point arithmetic standing for f32 and glam::Vec2. *)

ONE == 100

Abs(a) == IF a < 0 THEN -a ELSE a

Quot(a, b) ==
    IF (a < 0) = (b < 0) THEN Abs(a) \div Abs(b) ELSE -(Abs(a) \div Abs(b))

FMul(a, b) == Quot(a * b, ONE)

FDiv(a, b) == Quot(a * ONE, b)

(* The integer square root of n, by bisection: lo * lo <= n < hi * hi. *)
RECURSIVE SqrtIn(_, _, _)
SqrtIn(n, lo, hi) ==
    IF hi - lo <= 1 THEN lo
    ELSE LET mid == (lo + hi) \div 2
         IN  IF mid <= n \div mid THEN SqrtIn(n, mid, hi) ELSE SqrtIn(n, lo, mid)

Sqrt(n) == SqrtIn(n, 0, n + 1)

ZERO == <<0, 0>>

VAdd(a, b) == <<a[1] + b[1], a[2] + b[2]>>

VSub(a, b) == <<a[1] - b[1], a[2] - b[2]>>

VNeg(a) == <<-a[1], -a[2]>>

VScale(s, a) == <<FMul(s, a[1]), FMul(s, a[2])>>

VDivS(a, s) == <<FDiv(a[1], s), FDiv(a[2], s)>>

Dot(a, b) == FMul(a[1], b[1]) + FMul(a[2], b[2])

Perp(a) == <<-a[2], a[1]>>

Length(a) == Sqrt(a[1] * a[1] + a[2] * a[2])

MinElement(a) == IF a[1] < a[2] THEN a[1] ELSE a[2]

NormalizeOrZero(a) ==
    LET len == Length(a)
    IN  IF len = 0 THEN ZERO ELSE VDivS(a, len)

(* phy::Rot2, restricted to quarter turns q \in 0..3. *)
RotTransform(q, a) ==
    CASE q = 0 -> a
      [] q = 1 -> Perp(a)
      [] q = 2 -> VNeg(a)
      [] q = 3 -> VNeg(Perp(a))

RotInverse(q) == (4 - q) % 4

torque2(r, f) == FMul(r[1], f[2]) - FMul(r[2], f[1])

angular_to_linear2(w, r) == VScale(w, Perp(r))

-----------------------------------------------------------------------------
(* Constants of physics.rs, in fixed point. *)

AREA_EPS == 0
GRAV == <<0, 4 * ONE>>
AIRF == ONE \div 100
ELAST == 200 * ONE
DAMP == ONE \div 5
FRICT == (2 * ONE) \div 5
MOUSE_DAMP == 4 * ONE
WALL_OFFSET == ONE \div 25

(* Option::None of World::drag; Drag(i, target, rpos) below is Some. *)
None == [none |-> TRUE, i |-> 0, target |-> ZERO, rpos |-> ZERO]

-----------------------------------------------------------------------------
(* Shape, Body, Item (physics.rs 37-55, 90-103; lib.rs 33-42).  A state    *)
(* cell Var<T, S> is a current value (pos, vel, rot, asp) and an           *)
(* accumulating derivative (dpos, dvel, drot, dasp).  Texture and colour   *)
(* are rendering data and are left out.                                    *)

Circle(radius) == [kind |-> "Circle", radius |-> radius, size |-> ZERO]

Rectangle(sz) == [kind |-> "Rectangle", radius |-> 0, size |-> sz]

Item(shape, mass, inm, pos, vel, rot, asp) ==
    [shape |-> shape, mass |-> mass, inm |-> inm,
     pos |-> pos, vel |-> vel, rot |-> rot, asp |-> asp,
     dpos |-> ZERO, dvel |-> ZERO, drot |-> 0, dasp |-> 0]

(* Shape::radius *)
ShapeRadius(shape) ==
    IF shape.kind = "Circle" THEN shape.radius ELSE MinElement(shape.size)

(* Item::geometry: a disk, or the four vertices of the rotated rectangle. *)
Geometry(item) ==
    IF item.shape.kind = "Circle"
    THEN [kind |-> "Disk", center |-> item.pos, radius |-> item.shape.radius,
          vertices |-> <<>>]
    ELSE LET vertex == RotTransform(item.rot, item.shape.size)
         IN  [kind |-> "Polygon", center |-> item.pos, radius |-> 0,
              vertices |-> <<VSub(item.pos, vertex),
                             VSub(item.pos, Perp(vertex)),
                             VAdd(item.pos, vertex),
                             VAdd(item.pos, Perp(vertex))>>]

-----------------------------------------------------------------------------
(* Inputs. *)

(* Items a caller inserts: overlapping pick discs, both shape kinds,       *)
(* moving and resting bodies, rotated and unrotated.                       *)
ItemInputs ==
    { Item(Circle(2 * ONE), 2 * ONE, (4 * ONE) \div 5,
           <<0, 0>>, <<ONE, 0>>, 0, ONE),
      Item(Rectangle(<<ONE, 2 * ONE>>), ONE, ONE \div 5,
           <<ONE, 0>>, <<0, -ONE>>, 1, -2 * ONE) }

(* The items of a force pass: a second circle, at rest, as well. *)
ForceItemInputs ==
    ItemInputs \cup { Item(Circle(ONE), ONE, ONE \div 5, <<3 * ONE, 0>>, <<0, 0>>, 0, 0) }

(* Pointer positions: inside one pick disc, inside two, exactly on a pick  *)
(* radius, outside all.                                                    *)
Points ==
    { <<0, 0>>, <<(3 * ONE) \div 2, 0>>, <<2 * ONE, 0>> }

(* A pointer position away from every item. *)
FarPoint == <<5 * ONE, 5 * ONE>>

(* The half size of the world of a force pass. *)
ForceSize == <<2 * ONE, ONE>>

(* World half sizes. *)
Sizes == { <<2 * ONE, ONE>>, <<ONE, 3 * ONE>> }

-----------------------------------------------------------------------------
(* World (lib.rs 104-157).  A world value is [size, items, drag, panicked]. *)

Drag(i, target, rpos) == [none |-> FALSE, i |-> i, target |-> target, rpos |-> rpos]

(* World::new *)
WorldNew(sz) == [size |-> sz, items |-> <<>>, drag |-> None, panicked |-> FALSE]

(* The closure of drag_acquire's find_map, for the item at 0-based index i. *)
DragHit(i, item, pos) ==
    LET rel_pos == VSub(pos, item.pos)
    IN  IF Length(rel_pos) < ShapeRadius(item.shape)
        THEN Drag(i, pos, RotTransform(RotInverse(item.rot), rel_pos))
        ELSE None

(* Mutant of FindMap: the last hit from index i on, not the first. *)
RECURSIVE FindMapLast(_, _, _)
FindMapLast(its, pos, i) ==
    IF i >= Len(its) THEN None
    ELSE LET later == FindMapLast(its, pos, i + 1)
         IN  IF ~later.none THEN later ELSE DragHit(i, its[i + 1], pos)

(* Iterator::find_map over items.iter().enumerate(), from 0-based index i. *)
RECURSIVE FindMap(_, _, _)
FindMap(its, pos, i) ==
    IF i >= Len(its) THEN None
    ELSE LET hit == DragHit(i, its[i + 1], pos)
         IN  IF ~hit.none THEN hit ELSE FindMap(its, pos, i + 1)

(* World::drag_acquire *)
drag_acquire(w, pos) == [w EXCEPT !.drag = FindMap(w.items, pos, 0)]

(* Mutant of drag_move: with no drag active, acquires at pos. *)
drag_move_or_acquire(w, pos) ==
    IF ~w.drag.none THEN [w EXCEPT !.drag.target = pos] ELSE drag_acquire(w, pos)

(* Mutant of drag_move: the anchor is reset along with the target. *)
drag_move_reanchor(w, pos) ==
    IF ~w.drag.none THEN [w EXCEPT !.drag.target = pos, !.drag.rpos = ZERO] ELSE w

(* World::drag_move *)
drag_move(w, pos) ==
    IF ~w.drag.none THEN [w EXCEPT !.drag.target = pos] ELSE w

(* World::drag_release *)
drag_release(w) == [w EXCEPT !.drag = None]

(* World::n_items *)
n_items(w) == Len(w.items)

(* Vec::remove: panics when the index is out of bounds. *)
VecRemove(its, i) ==
    [j \in 1..(Len(its) - 1) |-> IF j <= i THEN its[j] ELSE its[j + 1]]

(* Mutant of remove_item: the drag is kept. *)
remove_item_keeps_drag(w, i) ==
    IF i < Len(w.items)
    THEN [w EXCEPT !.items = VecRemove(w.items, i)]
    ELSE [w EXCEPT !.panicked = TRUE]

(* Mutant of remove_item: the drag is cleared only when the dragged item   *)
(* is the one removed.                                                     *)
remove_item_clears_own(w, i) ==
    LET d == IF ~w.drag.none /\ w.drag.i = i THEN None ELSE w.drag
    IN  IF i < Len(w.items)
        THEN [w EXCEPT !.drag = d, !.items = VecRemove(w.items, i)]
        ELSE [w EXCEPT !.drag = d, !.panicked = TRUE]

(* World::remove_item *)
remove_item(w, i) ==
    IF i < Len(w.items)
    THEN [w EXCEPT !.drag = None, !.items = VecRemove(w.items, i)]
    ELSE [w EXCEPT !.drag = None, !.panicked = TRUE]

(* Mutant of insert_item: the item is put in front of the others. *)
insert_item_front(w, item) == [w EXCEPT !.items = <<item>> \o w.items]

(* World::insert_item *)
insert_item(w, item) == [w EXCEPT !.items = Append(w.items, item)]

(* World::resize *)
resize(w, sz) == [w EXCEPT !.size = sz]

-----------------------------------------------------------------------------
(* Force pass (physics.rs 77-258).  The pass threads st = [items, calls]:  *)
(* the items being written and the record of what has been done so far.    *)

NoParts == [def |-> ZERO, elast |-> ZERO, damp |-> ZERO, frict |-> ZERO]

(* An entry of the record.  kind "apply" is a call actor.apply(body of      *)
(* item, pos, force), made in phase "gravity", "wall", "pair" or "drag";   *)
(* other is the wall or the item of the contact, parts the deformation of  *)
(* a Body::contact call and its three forces.                              *)
(* The other kinds are the steps                                           *)
(* between the calls: "kinematics" and "air" of an item, "wall" (one       *)
(* contact_wall call: other is the wall 1..4, area what the overlap query  *)
(* found, -1 for none) and "collide" (one collide call of item and other,  *)
(* esum the weighted edge sum of the overlap found).                       *)
Ev(kind, phase, item, other, area, pos, force, parts) ==
    [kind |-> kind, phase |-> phase, item |-> item, other |-> other,
     area |-> area, esum |-> ZERO, pos |-> pos, force |-> force, parts |-> parts]

Note(st, kind, item, other, area) ==
    [st EXCEPT !.calls = Append(@, Ev(kind, "", item, other, area, ZERO, ZERO, NoParts))]

FoundArea(ov) == IF ov.none THEN -1 ELSE ov.area

Actors == {"DerivActor", "DrawActor"}

(* Mutant of ActorApply: DerivActor adds to the velocities themselves. *)
ActorApplyToValues(actor, body, pos, force) ==
    IF actor = "DerivActor"
    THEN [body EXCEPT
            !.vel = VAdd(@, VDivS(force, body.mass)),
            !.asp = @ + FDiv(torque2(VSub(pos, body.pos), force), body.inm)]
    ELSE body

(* Actor::apply.  DerivActor (physics.rs 82-88) accumulates into the       *)
(* derivatives; DrawActor (lib.rs 252-268) ignores the body and draws.     *)
ActorApply(actor, body, pos, force) ==
    IF actor = "DerivActor"
    THEN [body EXCEPT
            !.dvel = VAdd(@, VDivS(force, body.mass)),
            !.dasp = @ + FDiv(torque2(VSub(pos, body.pos), force), body.inm)]
    ELSE body

(* One call actor.apply(body of item i, pos, force), recorded. *)
SinkApply(st, actor, i, phase, other, pos, force, parts) ==
    [items |-> [st.items EXCEPT ![i + 1] = ActorApply(actor, @, pos, force)],
     calls |-> Append(st.calls, Ev("apply", phase, i, other, 0, pos, force, parts))]

(* Body::vel_at *)
vel_at(body, p) ==
    VAdd(body.vel, angular_to_linear2(body.asp, VSub(p, body.pos)))

(* The forces of Body::contact. *)
ContactForces(body, def, pos, vel) ==
    LET v == VSub(vel_at(body, pos), vel)
        norm == NormalizeOrZero(def)
        elast_f == VScale(ELAST, def)
        damp_f == VScale(FMul(-DAMP, Dot(v, norm)), elast_f)
        frict_f == VScale(FMul(-FRICT, Dot(v, Perp(norm))), Perp(elast_f))
    IN  [def |-> def, elast |-> elast_f, damp |-> damp_f, frict |-> frict_f]

(* Body::contact, on the body of item i; other is what it touches (a wall  *)
(* 1..4 or an item), kept for the record only.                             *)
contact(st, actor, i, phase, other, def, pos, vel) ==
    LET f == ContactForces(st.items[i + 1], def, pos, vel)
        total_f == VAdd(VAdd(f.elast, f.damp), f.frict)
    IN  SinkApply(st, actor, i, phase, other, pos, total_f, f)

(* Body::attract, on the body of item i. *)
attract(st, actor, i, target, self_pos) ==
    LET body == st.items[i + 1]
        loc_pos == RotTransform(body.rot, self_pos)
        rel_pos == VSub(target, VAdd(body.pos, loc_pos))
        vel == VAdd(body.vel, angular_to_linear2(body.asp, loc_pos))
        elast_f == VScale(ELAST, rel_pos)
        damp_f == VScale(-MOUSE_DAMP, vel)
        total_f == VAdd(elast_f, damp_f)
    IN  SinkApply(st, actor, i, "drag", -1, VAdd(body.pos, loc_pos), total_f, NoParts)

(* An overlap query's result: none, or the moment (area, centroid) and the *)
(* sum of the overlap's edges weighted by their meta (esum).               *)
NoOverlay == [none |-> TRUE, area |-> 0, centroid |-> ZERO, esum |-> ZERO]

Overlay(area, centroid, esum) ==
    [none |-> FALSE, area |-> area, centroid |-> centroid, esum |-> esum]

(* The record of one collide call of item a with item b that found ov. *)
NoteOverlap(st, a, b, ov) ==
    [st EXCEPT !.calls =
        Append(@, [Ev("collide", "", a, b, FoundArea(ov), ZERO, ZERO, NoParts)
                     EXCEPT !.esum = ov.esum])]

(* Mutant of contact_wall: an overlap of area AREA_EPS counts as a contact. *)
contact_wall_ge(st, actor, i, j, offset, normal, ov) ==
    LET st1 == Note(st, "wall", i, j, FoundArea(ov))
    IN  IF ~ov.none /\ ov.area >= AREA_EPS
        THEN contact(st1, actor, i, "wall", j, VScale(ov.area, normal), ov.centroid, ZERO)
        ELSE st1

(* contact_wall for item i and wall j = HalfPlane { normal, offset }; ov is *)
(* the overlap of the item's geometry and the wall.                        *)
contact_wall(st, actor, i, j, offset, normal, ov) ==
    LET st1 == Note(st, "wall", i, j, FoundArea(ov))
    IN  IF ~ov.none /\ ov.area > AREA_EPS
        THEN LET dir == normal
                 force == ov.area
                 poa == ov.centroid
             IN  contact(st1, actor, i, "wall", j, VScale(force, dir), poa, ZERO)
        ELSE st1

(* The contact direction of collide. *)
CollideDir(self, other, ov) ==
    LET edir == Perp(NormalizeOrZero(ov.esum))
    IN  CASE self.shape.kind = "Circle" /\ other.shape.kind = "Circle" ->
               VSub(other.pos, self.pos)
          [] self.shape.kind = "Rectangle" /\ other.shape.kind = "Rectangle" -> edir
          [] OTHER -> IF self.shape.kind = "Circle" THEN edir ELSE VNeg(edir)

(* Mutant of collide: both contacts take self's velocity as the reference. *)
collide_self_reference(st, actor, a, b, ov) ==
    LET self == st.items[a + 1]
        other == st.items[b + 1]
        st1 == NoteOverlap(st, a, b, ov)
        dir == CollideDir(self, other, ov)
    IN  IF ov.none \/ ~(ov.area > AREA_EPS) THEN st1
        ELSE contact(contact(st1, actor, a, "pair", b, VScale(-ov.area, dir),
                             ov.centroid, vel_at(self, ov.centroid)),
                     actor, b, "pair", a, VScale(ov.area, dir), ov.centroid,
                     vel_at(self, ov.centroid))

(* Mutant of collide: the edge direction is used as it is whichever operand *)
(* is the circle.                                                           *)
collide_no_flip(st, actor, a, b, ov) ==
    LET self == st.items[a + 1]
        other == st.items[b + 1]
        st1 == NoteOverlap(st, a, b, ov)
        dir == IF self.shape.kind = "Circle" /\ other.shape.kind = "Circle"
               THEN VSub(other.pos, self.pos)
               ELSE Perp(NormalizeOrZero(ov.esum))
    IN  IF ov.none \/ ~(ov.area > AREA_EPS) THEN st1
        ELSE LET st2 == contact(st1, actor, a, "pair", b, VScale(-ov.area, dir),
                                ov.centroid, vel_at(other, ov.centroid))
             IN  contact(st2, actor, b, "pair", a, VScale(ov.area, dir), ov.centroid,
                         vel_at(st2.items[a + 1], ov.centroid))

(* Item::collide, self = item a, other = item b; ov is the overlap of the  *)
(* two geometries (for a circle and a polygon: circle first).              *)
collide(st, actor, a, b, ov) ==
    LET self == st.items[a + 1]
        other == st.items[b + 1]
        gs == Geometry(self)
        go == Geometry(other)
        st1 == NoteOverlap(st, a, b, ov)
        edir == Perp(NormalizeOrZero(ov.esum))
        dir == CASE gs.kind = "Disk" /\ go.kind = "Disk" ->
                      VSub(other.pos, self.pos)
                 [] gs.kind = "Polygon" /\ go.kind = "Polygon" -> edir
                 [] OTHER ->
                      IF self.shape.kind = "Circle" THEN edir ELSE VNeg(edir)
        area == ov.area
        poa == ov.centroid
    IN  IF ov.none THEN st1
        ELSE IF area > AREA_EPS
        THEN LET force == area
                 st2 == contact(st1, actor, a, "pair", b, VScale(-force, dir), poa,
                                vel_at(other, poa))
             IN  contact(st2, actor, b, "pair", a, VScale(force, dir), poa,
                         vel_at(st2.items[a + 1], poa))
        ELSE st1

(* The body of the first loop of compute_derivs_ext, for item i. *)
ItemStep(st, actor, sz, geo, i) ==
    LET item == st.items[i + 1]
        radius == ShapeRadius(item.shape)
        kin == [item EXCEPT !.dpos = VAdd(@, item.vel), !.drot = @ + item.asp]
        st1 == Note([st EXCEPT !.items[i + 1] = kin], "kinematics", i, -1, 0)
        st2 == SinkApply(st1, actor, i, "gravity", -1, item.pos,
                         VScale(item.mass, GRAV), NoParts)
        b2 == st2.items[i + 1]
        air == [b2 EXCEPT
                  !.dvel = VAdd(@, VScale(-FDiv(FMul(AIRF, radius), b2.mass), b2.vel)),
                  !.dasp = @ + FMul(-FDiv(FMul(AIRF, radius), b2.inm), b2.asp)]
        st3 == Note([st2 EXCEPT !.items[i + 1] = air], "air", i, -1, 0)
        off == FMul(WALL_OFFSET, MinElement(sz))
        wall_size == <<sz[1] - off, sz[2] - off>>
        st4 == contact_wall(st3, actor, i, 1, -wall_size[1], <<ONE, 0>>, geo[<<"wall", i, 1>>])
        st5 == contact_wall(st4, actor, i, 2, -wall_size[1], <<-ONE, 0>>, geo[<<"wall", i, 2>>])
        st6 == contact_wall(st5, actor, i, 3, -wall_size[2], <<0, ONE>>, geo[<<"wall", i, 3>>])
    IN  contact_wall(st6, actor, i, 4, -wall_size[2], <<0, -ONE>>, geo[<<"wall", i, 4>>])

(* for item in self.items.iter_mut(), from index i on. *)
RECURSIVE ItemLoop(_, _, _, _, _)
ItemLoop(st, actor, sz, geo, i) ==
    IF i >= Len(st.items) THEN st
    ELSE ItemLoop(ItemStep(st, actor, sz, geo, i), actor, sz, geo, i + 1)

(* for other in other_items, where this = items[i - 1] and other_items     *)
(* starts at index i; j is the index of other.                             *)
RECURSIVE OtherLoop(_, _, _, _, _)
OtherLoop(st, actor, geo, i, j) ==
    IF j >= Len(st.items) THEN st
    ELSE OtherLoop(collide(st, actor, i - 1, j, geo[<<"pair", i - 1, j>>]),
                   actor, geo, i, j + 1)

(* Mutant of PairLoop: other_items starts one item too late. *)
RECURSIVE PairLoopSkip(_, _, _, _)
PairLoopSkip(st, actor, geo, i) ==
    IF i >= Len(st.items) THEN st
    ELSE PairLoopSkip(OtherLoop(st, actor, geo, i, i + 1), actor, geo, i + 1)

(* for i in 1..self.items.len() *)
RECURSIVE PairLoop(_, _, _, _)
PairLoop(st, actor, geo, i) ==
    IF i >= Len(st.items) THEN st
    ELSE PairLoop(OtherLoop(st, actor, geo, i, i), actor, geo, i + 1)

(* The drag step: if let Some((i, target, loc_pos)) = self.drag.  The      *)
(* result says whether self.items[i] was out of bounds.                    *)
DragStep(st, actor, d) ==
    IF d.none THEN [st |-> st, panicked |-> FALSE]
    ELSE IF d.i >= Len(st.items) THEN [st |-> st, panicked |-> TRUE]
    ELSE [st |-> attract(st, actor, d.i, d.target, d.rpos), panicked |-> FALSE]

(* Mutant of compute_derivs_ext: the pairwise loop runs before the item loop. *)
compute_pairs_first(w, actor, geo) ==
    LET st0 == [items |-> w.items, calls |-> <<>>]
        st1 == PairLoop(st0, actor, geo, 1)
        st2 == ItemLoop(st1, actor, w.size, geo, 0)
        r == DragStep(st2, actor, w.drag)
    IN  [world |-> [w EXCEPT !.items = r.st.items,
                             !.panicked = @ \/ r.panicked],
         calls |-> r.st.calls]

(* World::compute_derivs_ext: the world afterwards and what was done. *)
compute_derivs_ext(w, actor, geo) ==
    LET st0 == [items |-> w.items, calls |-> <<>>]
        st1 == ItemLoop(st0, actor, w.size, geo, 0)
        st2 == PairLoop(st1, actor, geo, 1)
        r == DragStep(st2, actor, w.drag)
    IN  [world |-> [w EXCEPT !.items = r.st.items,
                             !.panicked = @ \/ r.panicked],
         calls |-> r.st.calls]

-----------------------------------------------------------------------------
(* The overlap queries' results for one call of compute_derivs_ext on n    *)
(* items: one per (item, wall) and one per pair of items.                  *)

Slots(n) ==
    { <<"wall", i, j>> : i \in 0..(n - 1), j \in 1..4 }
    \cup { <<"pair", ab[1], ab[2]>> :
             ab \in { x \in (0..(n - 1)) \X (0..(n - 1)) : x[1] < x[2] } }

(* The subsets of S of at most k elements. *)
RECURSIVE UpTo(_, _)
UpTo(S, k) ==
    IF k = 0 THEN {{}}
    ELSE LET prev == UpTo(S, k - 1)
         IN  prev \cup { T \cup {x} : T \in prev, x \in S }

Areas == { k * (ONE \div 2) : k \in 1..MaxArea }

Centroids == { <<ONE, ONE \div 2>> }

ESums == { <<3 * ONE, 4 * ONE>>, ZERO }

Hits == { Overlay(a, c, e) : a \in Areas, c \in Centroids, e \in ESums }

Misses == { NoOverlay, Overlay(0, ZERO, ZERO) }

(* The queries of P find the overlap hit, the others find miss.  A force   *)
(* pass draws P with at most MaxContacts queries, hit of positive area and *)
(* miss none or of area zero.                                              *)
Geo(n, P, hit, miss) == [s \in Slots(n) |-> IF s \in P THEN hit ELSE miss]

(* Every query finds the same: none, area zero, or a positive area. *)
CoarseGeos(n) ==
    { Geo(n, {}, NoOverlay, ov) :
        ov \in Misses \cup { Overlay(ONE \div 2, <<ONE, ONE \div 2>>, <<3 * ONE, 4 * ONE>>) } }

(* The sequences over S of length at most n. *)
SeqsUpTo(S, n) == UNION { [1..k -> S] : k \in 0..n }

(* insert_item of each element of its, in order. *)
RECURSIVE InsertAll(_, _, _)
InsertAll(w, its, k) ==
    IF k > Len(its) THEN w ELSE InsertAll(insert_item(w, its[k]), its, k + 1)

-----------------------------------------------------------------------------
(* The state machine: one action per World operation. *)

World == [size |-> size, items |-> items, drag |-> drag, panicked |-> panicked]

Becomes(w) ==
    /\ size' = w.size
    /\ items' = w.items
    /\ drag' = w.drag
    /\ panicked' = w.panicked

(* op: the operation, its point or size argument, its index argument, its *)
(* sink, and the drag state it started from.                              *)
Did(name, pos, idx, actor) ==
    op' = [name |-> name, pos |-> pos, idx |-> idx, actor |-> actor, was |-> drag]

(* grabbed after drag_acquire gave the world w: the item it designated. *)
Acquired(w) ==
    grabbed' = IF w.drag.none \/ w.drag.i >= Len(w.items) THEN <<>>
               ELSE <<w.items[w.drag.i + 1]>>

(* grabbed after any other operation gave the world w. *)
Kept(w) == grabbed' = IF w.drag.none THEN <<>> ELSE grabbed

(* The event loop's variables (main.rs 40-41). *)
Pointer == <<mouse_pos, mouse_down>>

Init ==
    /\ \E sz \in Sizes :
         /\ size = WorldNew(sz).size
         /\ items = WorldNew(sz).items
         /\ drag = WorldNew(sz).drag
         /\ panicked = WorldNew(sz).panicked
         /\ op = [name |-> "new", pos |-> sz, idx |-> -1, actor |-> "", was |-> None]
    /\ calls = <<>>
    /\ ncalls = 0
    /\ grabbed = <<>>
    /\ mouse_pos = ZERO
    /\ mouse_down = FALSE

InsertItem ==
    /\ ~panicked
    /\ Len(items) < MaxItems
    /\ \E item \in ItemInputs :
         /\ Becomes(insert_item(World, item))
         /\ Kept(insert_item(World, item))
         /\ Did("insert_item", ZERO, -1, "")
    /\ calls' = <<>>
    /\ UNCHANGED <<ncalls, Pointer>>

RemoveItem ==
    /\ ~panicked
    /\ \E i \in 0..Len(items) :
         /\ Becomes(remove_item(World, i))
         /\ Kept(remove_item(World, i))
         /\ Did("remove_item", ZERO, i, "")
    /\ calls' = <<>>
    /\ UNCHANGED <<ncalls, Pointer>>

DragAcquire ==
    /\ ~panicked
    /\ \E pos \in Points :
         /\ Becomes(drag_acquire(World, pos))
         /\ Acquired(drag_acquire(World, pos))
         /\ Did("drag_acquire", pos, -1, "")
    /\ calls' = <<>>
    /\ UNCHANGED <<ncalls, Pointer>>

DragMove ==
    /\ ~panicked
    /\ \E pos \in Points :
         /\ Becomes(drag_move(World, pos))
         /\ Kept(drag_move(World, pos))
         /\ Did("drag_move", pos, -1, "")
    /\ calls' = <<>>
    /\ UNCHANGED <<ncalls, Pointer>>

DragRelease ==
    /\ ~panicked
    /\ Becomes(drag_release(World))
    /\ Kept(drag_release(World))
    /\ Did("drag_release", ZERO, -1, "")
    /\ calls' = <<>>
    /\ UNCHANGED <<ncalls, Pointer>>

Resize ==
    /\ ~panicked
    /\ \E sz \in Sizes :
         /\ Becomes(resize(World, sz))
         /\ Kept(resize(World, sz))
         /\ Did("resize", sz, -1, "")
    /\ calls' = <<>>
    /\ UNCHANGED <<ncalls, Pointer>>

Compute(actor, geo) ==
    \E r \in {compute_derivs_ext(World, actor, geo)} :
        /\ Becomes(r.world)
        /\ calls' = r.calls
        /\ Did("compute_derivs_ext", ZERO, -1, actor)
        /\ ncalls' = ncalls + 1
        /\ Kept(r.world)
        /\ UNCHANGED Pointer

ComputeDerivsExt ==
    /\ ~panicked
    /\ ncalls < MaxCalls
    /\ \E actor \in Actors, geo \in CoarseGeos(Len(items)) : Compute(actor, geo)

Next ==
    \/ InsertItem
    \/ RemoveItem
    \/ DragAcquire
    \/ DragMove
    \/ DragRelease
    \/ Resize
    \/ ComputeDerivsExt

Spec == Init /\ [][Next]_vars

(* One force pass on a populated world: the world is built by World::new,  *)
(* insert_item and, possibly, drag_acquire and drag_move; the pass runs    *)
(* once, with either sink and any of the overlap results of Geos.          *)
InitForce ==
    /\ \E its \in SeqsUpTo(ForceItemInputs, MaxItems),
          d \in {<<>>} \cup (Points \X {FarPoint}) :
         LET w0 == InsertAll(WorldNew(ForceSize), its, 1)
             w == IF d = <<>> THEN w0 ELSE drag_move(drag_acquire(w0, d[1]), d[2])
         IN  /\ size = w.size
             /\ items = w.items
             /\ drag = w.drag
             /\ panicked = w.panicked
             /\ grabbed = IF w.drag.none THEN <<>> ELSE <<w.items[w.drag.i + 1]>>
    /\ calls = <<>>
    /\ op = [name |-> "new", pos |-> ZERO, idx |-> -1, actor |-> "", was |-> None]
    /\ ncalls = 0
    /\ mouse_pos = ZERO
    /\ mouse_down = FALSE

ForcePass ==
    /\ ~panicked
    /\ ncalls = 0
    /\ \E actor \in Actors, P \in UpTo(Slots(Len(items)), MaxContacts),
          hit \in Hits, miss \in Misses :
         Compute(actor, Geo(Len(items), P, hit, miss))

NextForce == ForcePass

SpecForce == InitForce /\ [][NextForce]_vars

(* The item and drag operations on a world whose items are all different:  *)
(* insert_item is called with an item that is not in the world, so that an *)
(* item is known by its value.                                             *)
InsertDistinct ==
    /\ ~panicked
    /\ Len(items) < MaxItems
    /\ \E item \in ForceItemInputs \ { items[k] : k \in 1..Len(items) } :
         /\ Becomes(insert_item(World, item))
         /\ Kept(insert_item(World, item))
         /\ Did("insert_item", ZERO, -1, "")
    /\ calls' = <<>>
    /\ UNCHANGED <<ncalls, Pointer>>

NextDrag ==
    \/ InsertDistinct
    \/ RemoveItem
    \/ DragAcquire
    \/ DragMove
    \/ DragRelease

SpecDrag == Init /\ [][NextDrag]_vars

(* The event handling of the frame loop (main.rs 74-136), one action per   *)
(* event.  The world of the first frame holds sampled items (main.rs       *)
(* 49-52); here it holds any items of ItemInputs, at most MaxItems.        *)
InitLoop ==
    /\ \E sz \in Sizes, its \in SeqsUpTo(ItemInputs, MaxItems) :
         LET w == InsertAll(WorldNew(sz), its, 1)
         IN  /\ size = w.size
             /\ items = w.items
             /\ drag = w.drag
             /\ panicked = w.panicked
    /\ calls = <<>>
    /\ op = [name |-> "new", pos |-> ZERO, idx |-> -1, actor |-> "", was |-> None]
    /\ ncalls = 0
    /\ grabbed = <<>>
    /\ mouse_pos = ZERO
    /\ mouse_down = FALSE

(* KeyCode::Equal | KeyCode::NumpadAdd *)
KeyAdd ==
    /\ ~panicked
    /\ Len(items) < MaxItems
    /\ \E item \in ItemInputs :
         /\ Becomes(insert_item(World, item))
         /\ Kept(insert_item(World, item))
    /\ Did("KeyAdd", ZERO, -1, "")
    /\ calls' = <<>>
    /\ UNCHANGED <<ncalls, Pointer>>

(* KeyCode::Minus | KeyCode::NumpadSubtract: a random index below n_items. *)
KeyRemove ==
    /\ ~panicked
    /\ IF n_items(World) # 0
       THEN \E i \in 0..(n_items(World) - 1) :
                /\ Becomes(remove_item(World, i))
                /\ Kept(remove_item(World, i))
       ELSE Becomes(World) /\ Kept(World)
    /\ Did("KeyRemove", ZERO, -1, "")
    /\ calls' = <<>>
    /\ UNCHANGED <<ncalls, Pointer>>

(* Event::MouseInput (ElementState::Pressed, MouseButton::Left) *)
MousePressed ==
    /\ ~panicked
    /\ mouse_down' = TRUE
    /\ Becomes(drag_acquire(World, mouse_pos))
    /\ Acquired(drag_acquire(World, mouse_pos))
    /\ Did("MousePressed", mouse_pos, -1, "")
    /\ calls' = <<>>
    /\ UNCHANGED <<ncalls, mouse_pos>>

(* Event::MouseInput (ElementState::Released, MouseButton::Left) *)
MouseReleased ==
    /\ ~panicked
    /\ mouse_down' = FALSE
    /\ Becomes(drag_release(World))
    /\ Kept(drag_release(World))
    /\ Did("MouseReleased", ZERO, -1, "")
    /\ calls' = <<>>
    /\ UNCHANGED <<ncalls, mouse_pos>>

(* Event::CursorMoved, the position already in world coordinates. *)
CursorMoved ==
    /\ ~panicked
    /\ \E world_pos \in Points :
         /\ mouse_pos' = world_pos
         /\ IF mouse_down
            THEN Becomes(drag_move(World, world_pos)) /\ Kept(drag_move(World, world_pos))
            ELSE Becomes(World) /\ Kept(World)
         /\ Did("CursorMoved", world_pos, -1, "")
    /\ calls' = <<>>
    /\ UNCHANGED <<ncalls, mouse_down>>

(* Event::CursorLeft *)
CursorLeft ==
    /\ ~panicked
    /\ mouse_down' = FALSE
    /\ Becomes(World)
    /\ Kept(World)
    /\ Did("CursorLeft", ZERO, -1, "")
    /\ calls' = <<>>
    /\ UNCHANGED <<ncalls, mouse_pos>>

NextLoop ==
    \/ KeyAdd
    \/ KeyRemove
    \/ MousePressed
    \/ MouseReleased
    \/ CursorMoved
    \/ CursorLeft

SpecLoop == InitLoop /\ [][NextLoop]_vars

-----------------------------------------------------------------------------
(* Properties of the World operations, checked under Spec. *)

(* The pick radius of an item and the test of a point against it, stated   *)
(* on squared distances.                                                   *)
PickRadius(item) ==
    IF item.shape.kind = "Circle" THEN item.shape.radius
    ELSE IF item.shape.size[1] <= item.shape.size[2]
         THEN item.shape.size[1] ELSE item.shape.size[2]

InPick(p, item) ==
    LET dx == p[1] - item.pos[1]
        dy == p[2] - item.pos[2]
    IN  dx * dx + dy * dy < PickRadius(item) * PickRadius(item)

(* The 1-based positions of the items whose pick disc contains p. *)
Picked(p, its) == { k \in 1..Len(its) : InPick(p, its[k]) }

(* C1: whenever a drag is present its item index is less than the number   *)
(* of items, and the drag step of compute_derivs_ext never indexes out of  *)
(* bounds.                                                                 *)
C1_DragIndexLive ==
    /\ ~drag.none => (0 <= drag.i /\ drag.i < Len(items))
    /\ op.name = "compute_derivs_ext" => ~panicked

(* A force pass has applied the attraction to the last of several items. *)
C1_Witness ==
    /\ op.name = "compute_derivs_ext"
    /\ ~drag.none
    /\ Len(items) >= 2
    /\ drag.i = Len(items) - 1
    /\ \E k \in 1..Len(calls) : calls[k].phase = "drag" /\ calls[k].item = drag.i

(* C2: after remove_item the drag is absent, whatever was dragged before. *)
C2_RemoveClearsDrag == op.name = "remove_item" => drag.none

(* An item other than the dragged one has been removed. *)
C2_Witness ==
    /\ op.name = "remove_item"
    /\ ~panicked
    /\ ~op.was.none
    /\ op.was.i # op.idx
    /\ drag.none

(* C7: drag_acquire at a point outside every pick disc leaves the drag     *)
(* absent, and a drag_move or drag_release that follows it changes neither *)
(* the drag, the items nor the size.                                       *)
C7_AcquireMissThenNoop ==
    [][ /\ (op'.name = "drag_acquire" /\ Picked(op'.pos, items') = {}) => drag'.none
        /\ ( /\ op.name = "drag_acquire"
             /\ Picked(op.pos, items) = {}
             /\ op'.name \in {"drag_move", "drag_release"} )
           => (drag'.none /\ items' = items /\ size' = size /\ panicked' = panicked)
      ]_vars

(* drag_move to a point inside an item's pick disc, with no drag active. *)
C7_Witness ==
    /\ op.name = "drag_move"
    /\ op.was.none
    /\ drag.none
    /\ Picked(op.pos, items) # {}

(* C8: when some pick disc contains p, drag_acquire(p) leaves a drag on    *)
(* the lowest-index item whose disc contains p, with target p.             *)
C8_AcquireFirstHit ==
    (op.name = "drag_acquire" /\ Picked(op.pos, items) # {}) =>
        /\ ~drag.none
        /\ drag.i + 1 \in Picked(op.pos, items)
        /\ \A k \in Picked(op.pos, items) : drag.i + 1 <= k
        /\ drag.target = op.pos

(* Two items contain the point. *)
C8_Witness ==
    /\ op.name = "drag_acquire"
    /\ Cardinality(Picked(op.pos, items)) >= 2
    /\ ~drag.none

(* C9: drag_move(q) with a drag active sets the target to q and leaves the *)
(* dragged index, the anchor, the items and the size as they were.         *)
C9_MoveReplacesTargetOnly ==
    [][ (op'.name = "drag_move" /\ ~drag.none) =>
            /\ ~drag'.none
            /\ drag'.target = op'.pos
            /\ drag'.i = drag.i
            /\ drag'.rpos = drag.rpos
            /\ items' = items
            /\ size' = size
      ]_vars

(* A drag with a non-zero anchor has been moved to a new target. *)
C9_Witness ==
    /\ op.name = "drag_move"
    /\ ~op.was.none
    /\ op.was.target # op.pos
    /\ drag.target = op.pos
    /\ drag.rpos # ZERO

-----------------------------------------------------------------------------
(* Properties of one force pass, checked under SpecForce. *)

Passed == op.name = "compute_derivs_ext"

(* The positions in the record of the entries of a kind, of the apply      *)
(* calls, and of the apply calls of a phase.                               *)
Steps(kind) == { k \in 1..Len(calls) : calls[k].kind = kind }

Applies == Steps("apply")

AppliesIn(phase) == { k \in Applies : calls[k].phase = phase }

(* The collide or contact_wall calls whose overlap query found an area     *)
(* above the epsilon.                                                      *)
Touching(kind) == { k \in Steps(kind) : calls[k].area > AREA_EPS }

(* C3: one pass over n items calls collide exactly once for every          *)
(* unordered pair of distinct items, n * (n - 1) / 2 times in all, and     *)
(* never for an item with itself.                                          *)
C3_CollideOncePerPair ==
    Passed =>
        LET n == Len(items)
        IN  /\ \A k \in Steps("collide") :
                 /\ calls[k].item \in 0..(n - 1)
                 /\ calls[k].other \in 0..(n - 1)
                 /\ calls[k].item # calls[k].other
            /\ \A i \in 0..(n - 1), j \in 0..(n - 1) :
                 i < j =>
                   Cardinality({ k \in Steps("collide") :
                                   {calls[k].item, calls[k].other} = {i, j} }) = 1
            /\ 2 * Cardinality(Steps("collide")) = n * (n - 1)

(* A pass over three items. *)
C3_Witness == Passed /\ Len(items) = 3 /\ Cardinality(Steps("collide")) = 3

(* The place of an entry in the order of a pass over n items: the steps of *)
(* item i take 8 * i .. 8 * i + 6, the pairwise phase 8 * n, the drag      *)
(* 8 * n + 1.                                                              *)
Rank(e, n) ==
    CASE e.kind = "collide" \/ e.phase = "pair" -> 8 * n
      [] e.phase = "drag" -> 8 * n + 1
      [] e.kind = "kinematics" -> 8 * e.item
      [] e.phase = "gravity" -> 8 * e.item + 1
      [] e.kind = "air" -> 8 * e.item + 2
      [] OTHER -> 8 * e.item + 2 + e.other

(* C4: in one pass every item, in storage order, has its kinematics, its   *)
(* gravity call, its air resistance and its four wall checks, each wall    *)
(* contact call right after its check; every collide and pairwise contact  *)
(* call comes after all of them; the drag attraction comes last.           *)
C4_PhaseOrder ==
    Passed =>
        LET n == Len(items)
            IsStep(k, r) ==
                /\ Rank(calls[k], n) = r
                /\ IF r % 8 = 1 THEN calls[k].phase = "gravity"
                   ELSE calls[k].kind # "apply"
        IN  /\ \A k \in 1..(Len(calls) - 1) :
                 /\ Rank(calls[k], n) <= Rank(calls[k + 1], n)
                 /\ (Rank(calls[k], n) = Rank(calls[k + 1], n)
                       /\ Rank(calls[k], n) < 8 * n) =>
                      (calls[k].kind = "wall" /\ calls[k + 1].phase = "wall")
            /\ \A i \in 0..(n - 1) :
                 \A r \in (8 * i)..(8 * i + 6) :
                   \E k \in 1..Len(calls) : IsStep(k, r)
            /\ \A k \in AppliesIn("pair") :
                 \A j \in AppliesIn("gravity") \cup AppliesIn("wall") : j < k
            /\ \A k \in AppliesIn("drag") :
                 \A j \in Applies \ AppliesIn("drag") : j < k

(* A pass with a gravity, a wall, a pairwise and a drag call. *)
C4_Witness ==
    /\ Passed
    /\ Len(items) >= 2
    /\ AppliesIn("wall") # {}
    /\ AppliesIn("pair") # {}
    /\ AppliesIn("drag") # {}

(* The current values of an item: all but its derivative accumulators. *)
Values(item) == [item EXCEPT !.dpos = ZERO, !.dvel = ZERO, !.drot = 0, !.dasp = 0]

C6_PairForcesNegate ==
    Passed =>
        \A k \in Touching("collide") :
            /\ k + 2 <= Len(calls)
            /\ LET c == calls[k]
                   fa == calls[k + 1]
                   fb == calls[k + 2]
               IN  /\ fa.kind = "apply" /\ fa.phase = "pair" /\ fa.item = c.item
                   /\ fb.kind = "apply" /\ fb.phase = "pair" /\ fb.item = c.other
                   /\ fa.pos = fb.pos
                   /\ fa.force = VNeg(fb.force)
                   /\ fa.parts.elast = VNeg(fb.parts.elast)
                   /\ fa.parts.damp = VNeg(fb.parts.damp)
                   /\ fa.parts.frict = VNeg(fb.parts.frict)

(* A contact of two moving bodies with elastic, damping and friction force. *)
C6_Witness ==
    /\ Passed
    /\ \E k \in Touching("collide") :
         /\ k + 2 <= Len(calls)
         /\ calls[k + 1].parts.elast # ZERO
         /\ calls[k + 1].parts.damp # ZERO
         /\ calls[k + 1].parts.frict # ZERO
         /\ items[calls[k].item + 1].asp # 0
         /\ items[calls[k].other + 1].asp # 0

(* C10: the number of sink calls of a pass is the number of items, plus    *)
(* one per wall check that found an area above the epsilon, plus two per   *)
(* collide that did, plus one when a drag is active; and the pass has not  *)
(* failed.                                                                 *)
C10_SinkCallCount ==
    Passed =>
        /\ ~panicked
        /\ Cardinality(Applies) =
               Len(items) + Cardinality(Touching("wall"))
               + 2 * Cardinality(Touching("collide"))
               + (IF drag.none THEN 0 ELSE 1)
        /\ Cardinality(Steps("wall")) = 4 * Len(items)

(* A pass with wall contacts, a pairwise contact and a drag. *)
C10_Witness ==
    /\ Passed
    /\ Touching("wall") # {}
    /\ Touching("collide") # {}
    /\ ~drag.none
    /\ Cardinality(Applies) = Len(items) + 4

(* The collide steps of a circle and a rectangle that found a contact. *)
MixedTouching ==
    { k \in Touching("collide") :
        items[calls[k].item + 1].shape.kind # items[calls[k].other + 1].shape.kind }

(* The deformation passed to Body::contact on item i by the collide step k. *)
DefOf(k, i) == IF calls[k + 1].item = i THEN calls[k + 1].parts.def
               ELSE calls[k + 2].parts.def

(* C11: when a circle and a rectangle overlap with area a and weighted     *)
(* edge direction d (perp of the normalized edge sum, circle as the first  *)
(* operand of the intersection), the circle's body receives the            *)
(* deformation -a*d and the rectangle's +a*d, whether the circle or the    *)
(* rectangle is the self operand of collide.                               *)
C11_CirclePushedFromPolygon ==
    Passed =>
        \A k \in MixedTouching :
            LET c == calls[k]
                d == Perp(NormalizeOrZero(c.esum))
                circle == IF items[c.item + 1].shape.kind = "Circle"
                          THEN c.item ELSE c.other
                rectangle == IF circle = c.item THEN c.other ELSE c.item
            IN  /\ k + 2 <= Len(calls)
                /\ {calls[k + 1].item, calls[k + 2].item} = {circle, rectangle}
                /\ DefOf(k, circle) = VScale(-c.area, d)
                /\ DefOf(k, rectangle) = VScale(c.area, d)

(* One pass with both operand orders: a circle colliding with a rectangle  *)
(* and a rectangle colliding with a circle, the edge direction not zero.   *)
C11_Witness ==
    /\ Passed
    /\ \E k1, k2 \in MixedTouching :
         /\ items[calls[k1].item + 1].shape.kind = "Circle"
         /\ items[calls[k2].item + 1].shape.kind = "Rectangle"
         /\ Perp(NormalizeOrZero(calls[k1].esum)) # ZERO
         /\ Perp(NormalizeOrZero(calls[k2].esum)) # ZERO

-----------------------------------------------------------------------------
(* Properties of the item and drag operations, checked under SpecDrag. *)

(* C12: after any sequence of insert_item, remove_item, drag_acquire,      *)
(* drag_move and drag_release, an active drag's index designates the very  *)
(* item that was hit at acquisition.                                       *)
C12_DragKeepsItsItem ==
    ~drag.none =>
        /\ drag.i < Len(items)
        /\ grabbed = <<items[drag.i + 1]>>

(* An item has been inserted while another one, not the first in storage   *)
(* order, was being dragged.                                               *)
C12_Witness ==
    /\ op.name = "insert_item"
    /\ ~op.was.none
    /\ ~drag.none
    /\ drag.i >= 1
    /\ Len(items) = drag.i + 2

-----------------------------------------------------------------------------
(* Properties of the frame loop's event handling, checked under SpecLoop. *)

(* C13: after any sequence of MouseInput, CursorMoved, CursorLeft and item *)
(* add and remove key events, the world has an active drag only while the  *)
(* left button is tracked as pressed: mouse_down = false implies that the  *)
(* drag is absent.                                                         *)
C13_DragOnlyWhileDown == ~mouse_down => drag.none

(* CursorLeft has been handled while an item was being dragged. *)
C13_Witness ==
    /\ op.name = "CursorLeft"
    /\ ~op.was.none
    /\ ~drag.none
    /\ ~mouse_down

====
